---- MODULE Spec2Model ----
(***************************************************************************)
(* Model of the Hand2Data OCR backend: the TrOCR model lifecycle           *)
(* (backend/app/services/trocr_service.py), the Tesseract engine           *)
(* (backend/app/services/tesseract_service.py) and the request handlers    *)
(* that orchestrate them (backend/app/routes/ocr_routes.py).               *)
(*                                                                         *)
(* The handlers are coroutines of one event loop (uvicorn, one process).   *)
(* A handler runs without interruption between two suspension points; the  *)
(* only suspension point of a handler is `await file.read()` in            *)
(* extract_text.  subprocess.run inside download_model is a synchronous    *)
(* call: the handler stays in it, holding the event loop, until the child  *)
(* exits or the timeout expires.                                           *)
(*                                                                         *)
(* Calls into libraries (transformers, torch, pytesseract, the file        *)
(* system) are modelled by their outcomes: each may return or raise, the   *)
(* choice is an input of the action.  In particular every statement of     *)
(* the try block of _load_model (lines 95-133) may raise; line 133 calls   *)
(* .upper() on the torch.device handle assigned at line 129, which is the  *)
(* fault point "status" below.                                             *)
(***************************************************************************)
EXTENDS Integers, Sequences, FiniteSets, TLC

\* Number of request slots (handlers that may be in flight at once).
MaxRequests == 2

\* Number of catalog model types that requests name.
MaxTypes == 2

None == "None"

\* Keys of TrOCRService.available_models, the default model type first.
CatalogSeq ==
    << "large-handwritten", "small-printed", "small-handwritten",
       "base-handwritten", "base-printed", "large-printed" >>

available_models == { CatalogSeq[i] : i \in 1..Len(CatalogSeq) }

\* Default of the model_type parameter of _get_model_path.
DefaultModelType == "large-handwritten"

\* A model_type string that is no key of the catalog.
UnknownType == "unknown-type"

RequestTypes == { CatalogSeq[i] : i \in 1..MaxTypes } \cup { UnknownType }

\* The catalog types whose directories the model tracks: those requests name.
TrackedTypes == RequestTypes \cap available_models

OcrTypes == { "tesseract", "trocr", "other" }

Requests == 1..MaxRequests

processor_files == { "tokenizer.json", "tokenizer_config.json", "preprocessor_config.json" }

model_files == { "config.json", "pytorch_model.bin" }

RequiredFiles == processor_files \cup model_files

VARIABLES
    trocr_service,      \* the TrOCRService object of ocr_routes.py
    tesseract_service,  \* the TesseractService object of ocr_routes.py
    fs,                 \* python_ocr/: model directories, their files, temp_download.py
    pc,                 \* per request slot: "idle", "reading" or "subprocess"
    req,                \* per request slot: the request being handled
    last,               \* the most recently completed request and its response
    last_load           \* outcome of the most recent _load_model call

vars == << trocr_service, tesseract_service, fs, pc, req, last, last_load >>

----------------------------------------------------------------------------
\* File system

\* _check_local_model with a file name in model_files that save_pretrained
\* never writes.
_check_local_model_wrong_file(f, model_type) ==
    IF model_type \in f.dirs
    THEN LET processor_exists == \A x \in processor_files : x \in f.files[model_type]
             model_exists == \A x \in { "config.json", "model.bin" } :
                                 x \in f.files[model_type]
         IN  processor_exists /\ model_exists
    ELSE FALSE

\* _check_local_model that, like python_ocr/download_model.py, takes
\* config.json alone for the model.
_check_local_model_config_only(f, model_type) ==
    IF model_type \in f.dirs
    THEN LET processor_exists == \A x \in processor_files : x \in f.files[model_type]
             model_exists == "config.json" \in f.files[model_type]
         IN  processor_exists /\ model_exists
    ELSE FALSE

\* _check_local_model: the directory exists and all processor and model files exist.
_check_local_model(f, model_type) ==
    IF model_type \in f.dirs
    THEN LET processor_exists == \A x \in processor_files : x \in f.files[model_type]
             model_exists == \A x \in model_files : x \in f.files[model_type]
         IN  processor_exists /\ model_exists
    ELSE FALSE

\* get_installed_models: the catalog types whose local model exists.
get_installed_models(f) ==
    { model_type \in available_models : _check_local_model(f, model_type) }

----------------------------------------------------------------------------
\* TrOCRService.  The fields device and model_dir are written by _load_model
\* and decide no branch of the code; the record leaves them out.

TrOCRInit ==
    [ model_loaded |-> FALSE,
      status |-> << "Not loaded", None >>,
      processor |-> None,
      model |-> None,
      current_model_type |-> None ]

\* Points of _load_model at which a library call may raise.
LoadFaults == { "none", "pre", "processor", "model", "to_device", "status" }

\* _load_model whose exception handler does not reset model_loaded.
_load_model_keeps_loaded(s, f, model_type, fault) ==
    LET a2 == [ s EXCEPT !.processor = model_type ]
        a3 == [ a2 EXCEPT !.model = model_type, !.current_model_type = model_type ]
        a5 == [ a3 EXCEPT !.model_loaded = TRUE ]
        a6 == [ a5 EXCEPT !.status = << "Ready", model_type >> ]
        failed(x) == [ x EXCEPT !.status = << "Error loading", model_type >> ]
    IN  CASE fault = "pre"       -> failed(s)
          [] fault = "processor" -> failed(s)
          [] fault = "model"     -> failed(a2)
          [] fault = "to_device" -> failed(a3)
          [] fault = "status"    -> failed(a5)
          [] OTHER               -> a6

\* _load_model: the assignments made before the fault point, then the handler
\* of the exception (status := error, model_loaded := False).
_load_model(s, f, model_type, fault) ==
    LET local_exists == _check_local_model(f, model_type)
        a1 == [ s EXCEPT !.status =
                  IF local_exists THEN << "Loading from local cache", model_type >>
                                  ELSE << "Downloading from Hugging Face", model_type >> ]
        a2 == [ a1 EXCEPT !.processor = model_type ]
        a3 == [ a2 EXCEPT !.model = model_type,
                          !.current_model_type = model_type ]
        a5 == [ a3 EXCEPT !.model_loaded = TRUE ]
        a6 == [ a5 EXCEPT !.status = << "Ready", model_type >> ]
        failed(x) == [ x EXCEPT !.status = << "Error loading", model_type >>,
                                !.model_loaded = FALSE ]
    IN  CASE fault = "pre"       -> failed(s)
          [] fault = "processor" -> failed(a1)
          [] fault = "model"     -> failed(a2)
          [] fault = "to_device" -> failed(a3)
          [] fault = "status"    -> failed(a5)
          [] OTHER               -> a6

\* True iff every required file of model_type exists in its directory.
AllRequiredFilesExist(f, model_type) ==
    /\ model_type \in available_models
    /\ model_type \in f.dirs
    /\ RequiredFiles \subseteq f.files[model_type]

\* Record of one download_model call, kept for the properties.
NoDM ==
    [ called |-> FALSE, model_type |-> None, entry_present |-> FALSE,
      script_written |-> FALSE, subprocess_run |-> FALSE, outcome |-> "none",
      load_called |-> FALSE, load_source |-> "none", returned |-> FALSE,
      success |-> FALSE, message |-> << >> ]

\* A return statement of download_model: the dictionary returned, with the
\* service and the file system as they are at that point.
Returned(s, f, log, success, message, load) ==
    [ svc |-> s, fs |-> f, phase |-> "returned",
      result |-> [ success |-> success, message |-> message, status |-> s.status ],
      log |-> [ log EXCEPT !.returned = TRUE, !.success = success, !.message = message,
                           !.load_called = (load # "none"),
                           !.load_source =
                               IF load = "none" THEN "none"
                               ELSE IF _check_local_model(f, log.model_type) THEN "local"
                               ELSE "repo" ],
      load |-> load ]

\* Outcomes of writing temp_download.py (lines 326-344): written, open() raises
\* (no file), or f.write raises after open() created the file.
WriteFaults == { "none", "open", "write" }

\* download_model, lines 286-345 and the outer handler 417-424: from entry up
\* to the call of subprocess.run, or to a return before it.  `catalog` is the
\* set of model types the validation of line 290 lets through.
download_model_enter_as(catalog, s, f, model_type, wfault, lfault) ==
    LET log0 == [ NoDM EXCEPT !.called = TRUE, !.model_type = model_type,
                              !.entry_present = AllRequiredFilesExist(f, model_type) ]
    IN  IF model_type \notin catalog
        THEN [ Returned(s, f, log0, FALSE, << "Invalid model type", model_type >>, "none")
                 EXCEPT !.result.status = << "Error", None >> ]
        ELSE IF s.model_loaded /\ s.current_model_type = model_type
        THEN Returned(s, f, log0, TRUE, << "Model already loaded", model_type >>, "none")
        ELSE IF _check_local_model(f, model_type)
        THEN LET s1 == [ s EXCEPT !.status = << "Local model found, loading", model_type >> ]
                 s2 == _load_model(s1, f, model_type, lfault)
             IN  Returned(s2, f, log0, TRUE, << "Model loaded from local cache", model_type >>,
                          IF lfault = "none" THEN "ok" ELSE "failed")
        ELSE LET s1 == [ s EXCEPT !.status = << "Downloading", model_type >> ]
                 s9 == [ s1 EXCEPT !.status = << "Model download failed", None >> ]
             IN  CASE wfault = "open" ->
                        Returned(s9, f, log0, FALSE, << "Model download failed", "e" >>, "none")
                   [] wfault = "write" ->
                        Returned(s9, [ f EXCEPT !.temp_script = TRUE ],
                                 [ log0 EXCEPT !.script_written = TRUE ],
                                 FALSE, << "Model download failed", "e" >>, "none")
                   [] OTHER ->
                        [ svc |-> s1, fs |-> [ f EXCEPT !.temp_script = TRUE ],
                          phase |-> "subprocess",
                          result |-> [ success |-> FALSE, message |-> << >>, status |-> s1.status ],
                          log |-> [ log0 EXCEPT !.script_written = TRUE, !.subprocess_run = TRUE ],
                          load |-> "none" ]

\* download_model without the validation of its model_type.
download_model_enter_unvalidated(s, f, model_type, wfault, lfault) ==
    download_model_enter_as(RequestTypes, s, f, model_type, wfault, lfault)

\* The validation of line 290 lets the keys of available_models through.
download_model_enter(s, f, model_type, wfault, lfault) ==
    download_model_enter_as(available_models, s, f, model_type, wfault, lfault)

\* Ways subprocess.run ends: the child exits 0, exits non-zero, the 300 s
\* timeout expires, KeyboardInterrupt, or subprocess.run raises.
SubprocessOutcomes == { "exit0", "nonzero", "timeout", "interrupt", "oserror" }

\* How far download_model.py (python_ocr) got when it ended: nothing yet, the
\* model directory made, the processor saved, config.json of the model saved,
\* everything saved.
ChildProgress(outcome) ==
    CASE outcome = "exit0"     -> { "all" }
      [] outcome = "nonzero"   -> { "none", "dir", "processor" }
      [] outcome = "timeout"   -> { "none", "dir", "processor", "config" }
      [] outcome = "interrupt" -> { "none", "dir", "processor", "config" }
      [] OTHER                 -> { "none" }

\* python_ocr/download_model.py run for model_key: makedirs, return at once if
\* config.json exists, else save the processor files and then the model files.
child_effect(f, model_key, progress) ==
    LET made == [ f EXCEPT !.dirs = @ \cup { model_key } ]
        put(X) == [ made EXCEPT !.files[model_key] = @ \cup X ]
    IN  IF progress = "none" THEN f
        ELSE IF model_key \in f.dirs /\ "config.json" \in f.files[model_key] THEN made
        ELSE CASE progress = "dir"       -> made
               [] progress = "processor" -> put(processor_files)
               [] progress = "config"    -> put(processor_files \cup { "config.json" })
               [] OTHER                  -> put(RequiredFiles)

\* download_model, lines 346-415: subprocess.run has ended; remove the
\* temporary script, then load the model or return the failure.
download_model_finish_as(succeeded, s, f, model_type, outcome, progress, lfault, log) ==
    LET f1 == [ child_effect(f, model_type, progress) EXCEPT !.temp_script = FALSE ]
        log1 == [ log EXCEPT !.outcome = outcome ]
        err(text) == [ s EXCEPT !.status = << "Error", text >> ]
    IN  CASE outcome \in succeeded ->
               Returned(_load_model(s, f1, model_type, lfault), f1, log1, TRUE,
                        << "Model downloaded and loaded successfully", model_type >>,
                        IF lfault = "none" THEN "ok" ELSE "failed")
          [] outcome = "nonzero" ->
               Returned(err("Download script failed"), f1, log1, FALSE,
                        << "Download script failed", "stderr" >>, "none")
          [] outcome = "timeout" ->
               Returned(err("Model download timed out after 5 minutes"), f1, log1, FALSE,
                        << "Model download timed out after 5 minutes", "" >>, "none")
          [] outcome = "interrupt" ->
               Returned(err("Model download was interrupted"), f1, log1, FALSE,
                        << "Model download was interrupted", "" >>, "none")
          [] OTHER ->
               Returned(err("Download script execution failed"), f1, log1, FALSE,
                        << "Download script execution failed", "e" >>, "none")

\* download_model that takes every exit status of the child for success.
download_model_finish_ignores_returncode(s, f, model_type, outcome, progress, lfault, log) ==
    download_model_finish_as({ "exit0", "nonzero" }, s, f, model_type, outcome, progress,
                             lfault, log)

\* download_model that also marks the model unloaded when the download fails.
download_model_finish_unloads(s, f, model_type, outcome, progress, lfault, log) ==
    LET d == download_model_finish_as({ "exit0" }, s, f, model_type, outcome, progress,
                                      lfault, log)
    IN  IF d.result.success THEN d ELSE [ d EXCEPT !.svc.model_loaded = FALSE ]

\* result.returncode == 0 (line 360) is the one success of the child.
download_model_finish(s, f, model_type, outcome, progress, lfault, log) ==
    download_model_finish_as({ "exit0" }, s, f, model_type, outcome, progress, lfault, log)

----------------------------------------------------------------------------
\* Engines

\* TesseractService.extract_text without the test of model_loaded.
tesseract_extract_text_unchecked(ts, fault) ==
    IF fault
    THEN [ outcome |-> "raised", result |-> [ text |-> << None, None >> ] ]
    ELSE [ outcome |-> "ok", result |-> [ text |-> << "tesseract", None >> ] ]

\* TesseractService.extract_text: raises when the setup check failed
\* (line 166) or when the OCR call raises (line 212), else returns the text.
tesseract_extract_text(ts, fault) ==
    IF ~ts.model_loaded
    THEN [ outcome |-> "unavailable", result |-> [ text |-> << None, None >> ] ]
    ELSE IF fault
    THEN [ outcome |-> "raised", result |-> [ text |-> << None, None >> ] ]
    ELSE [ outcome |-> "ok", result |-> [ text |-> << "tesseract", None >> ] ]

\* TrOCRService.extract_text: raises when model_loaded is false (line 242) or
\* when generation raises (line 283), else returns the text the held model
\* handle generates.
trocr_extract_text(s, fault) ==
    IF ~s.model_loaded
    THEN [ outcome |-> "not_loaded", result |-> [ text |-> << None, None >> ] ]
    ELSE IF fault
    THEN [ outcome |-> "raised", result |-> [ text |-> << None, None >> ] ]
    ELSE [ outcome |-> "ok", result |-> [ text |-> << "trocr", s.model >> ] ]

----------------------------------------------------------------------------
\* Routes

NoReq ==
    [ kind |-> None, ocr_type |-> None, model_type |-> None, dm |-> NoDM,
      was_loaded |-> FALSE ]

NoLast ==
    [ kind |-> None, ocr_type |-> None, model_type |-> None,
      status_code |-> 0, content |-> [ detail |-> None ],
      result |-> [ text |-> << None, None >> ],
      tess |-> "none", trocr |-> "none", dm |-> NoDM,
      dir_existed |-> FALSE, loaded_as_requested |-> FALSE, was_loaded |-> FALSE,
      file_valid |-> TRUE ]

\* The `except Exception` handler of extract_text (lines 140-141).
extract_error(cause) ==
    [ status_code |-> 500, content |-> [ detail |-> << "OCR processing failed", cause >> ],
      result |-> [ text |-> << None, None >> ] ]

\* The JSONResponse built by extract_text (lines 118-138) from `result`.
extract_response(result, ocr_type, model_type) ==
    [ status_code |-> 200,
      content |-> [ success |-> TRUE,
                    text |-> result.text,
                    ocr_type |-> ocr_type,
                    model_type |-> IF ocr_type = "trocr" THEN model_type ELSE None ],
      result |-> result ]

\* extract_text, lines 56-66: the Tesseract branch.
extract_with_tesseract(ts, rq, tfault) ==
    LET t == tesseract_extract_text(ts, tfault)
        out == IF t.outcome = "ok"
               THEN extract_response(t.result, rq.ocr_type, rq.model_type)
               ELSE extract_error(t.outcome)
    IN  [ out |-> out, tess |-> t.outcome, trocr |-> "none" ]

\* Extraction with the TrOCR engine that runs Tesseract when TrOCR raises.
extract_with_trocr_falls_back(s, rq, xfault) ==
    LET x == trocr_extract_text(s, xfault)
        t == tesseract_extract_text(tesseract_service, FALSE)
    IN  IF x.outcome = "ok"
        THEN [ out |-> extract_response(x.result, rq.ocr_type, rq.model_type),
               tess |-> "none", trocr |-> "ok" ]
        ELSE [ out |-> IF t.outcome = "ok"
                       THEN extract_response(t.result, rq.ocr_type, rq.model_type)
                       ELSE extract_error(t.outcome),
               tess |-> t.outcome, trocr |-> x.outcome ]

\* extract_text, lines 93-114: extraction with the TrOCR engine.
extract_with_trocr(s, rq, xfault) ==
    LET x == trocr_extract_text(s, xfault)
        out == IF x.outcome = "ok"
               THEN extract_response(x.result, rq.ocr_type, rq.model_type)
               ELSE extract_error(x.outcome)
    IN  [ out |-> out, tess |-> "none", trocr |-> x.outcome ]

\* extract_text, lines 72-102: what follows the return of download_model.
\* load_result is the dictionary download_model returned, s the service after it.
extract_after_load(s, ts, rq, load_result, tfault, xfault) ==
    IF ~load_result.success
    THEN LET t == tesseract_extract_text(ts, tfault)
             result == [ text |-> t.result.text,
                         fallback_used |-> TRUE,
                         fallback_reason |-> << "TrOCR model failed to load", rq.model_type,
                                                load_result.message >> ]
             out == IF t.outcome = "ok"
                    THEN extract_response(result, rq.ocr_type, rq.model_type)
                    ELSE extract_error(t.outcome)
         IN  [ out |-> out, tess |-> t.outcome, trocr |-> "none" ]
    ELSE extract_with_trocr(s, rq, xfault)

\* extract_text that calls download_model for every trocr request.
needs_load_always(s, model_type) == TRUE

\* extract_text that asks only whether some model is loaded.
needs_load_ignores_type(s, model_type) == ~s.model_loaded

\* extract_text, line 70: the requested model is not the loaded one.
needs_load(s, model_type) ==
    ~s.model_loaded \/ s.current_model_type # model_type

\* force_download_models that leaves model_loaded as it is.
force_reset_keeps_loaded(s, model_type) ==
    [ s EXCEPT !.status = << "Force downloading", model_type >> ]

\* force_download_models, lines 247-248: the service state is reset before
\* download_model is called.
force_reset(s, model_type) ==
    [ s EXCEPT !.model_loaded = FALSE,
               !.status = << "Force downloading", model_type >> ]

\* clear_model_cache that also stores "No cache to clear" in the service
\* status when it finds no directory.
clear_model_cache_writes_status(s, f) ==
    LET model_dir == DefaultModelType
    IN  IF model_dir \in f.dirs
        THEN [ svc |-> [ s EXCEPT !.model_loaded = FALSE,
                                  !.status = << "Local cache cleared", None >> ],
               fs |-> [ f EXCEPT !.dirs = @ \ { model_dir }, !.files[model_dir] = {} ],
               status_code |-> 200,
               content |-> [ success |-> TRUE, message |-> "Model cache cleared successfully",
                             status |-> << "Local cache cleared", None >> ] ]
        ELSE [ svc |-> [ s EXCEPT !.status = << "No cache to clear", None >> ],
               fs |-> f, status_code |-> 200,
               content |-> [ success |-> TRUE, message |-> "No local cache found",
                             status |-> << "No cache to clear", None >> ] ]

\* clear_model_cache (lines 258-285): the directory of the default model type.
clear_model_cache(s, f) ==
    LET model_dir == DefaultModelType
    IN  IF model_dir \in f.dirs
        THEN [ svc |-> [ s EXCEPT !.model_loaded = FALSE,
                                  !.status = << "Local cache cleared", None >> ],
               fs |-> [ f EXCEPT !.dirs = @ \ { model_dir }, !.files[model_dir] = {} ],
               status_code |-> 200,
               content |-> [ success |-> TRUE, message |-> "Model cache cleared successfully",
                             status |-> << "Local cache cleared", None >> ] ]
        ELSE [ svc |-> s, fs |-> f, status_code |-> 200,
               content |-> [ success |-> TRUE, message |-> "No local cache found",
                             status |-> << "No cache to clear", None >> ] ]

\* TrOCRService.get_status and TesseractService.get_status.
get_status(s, ts, f) ==
    [ tesseract |-> [ loaded |-> ts.model_loaded, status |-> ts.status ],
      trocr |-> [ loaded |-> s.model_loaded, status |-> s.status,
                  current_model_type |-> s.current_model_type,
                  installed_models |-> get_installed_models(f) ] ]

----------------------------------------------------------------------------
\* Event loop

\* subprocess.run replaced by an awaited subprocess: the handler is suspended
\* and the event loop runs other handlers meanwhile.
HoldsEventLoop_awaited(position) == FALSE

\* A handler at this position is inside a synchronous call and holds the
\* event loop: subprocess.run (trocr_service.py line 348) is not awaited.
HoldsEventLoop(position) == position = "subprocess"

\* No handler other than that of slot r holds the event loop.
LoopFree(r) == \A q \in Requests \ { r } : ~HoldsEventLoop(pc[q])

\* Slot r may take a step: the event loop is free, and the response of the
\* request that finished before has been sent.
Runnable(r) ==
    /\ last = NoLast
    /\ LoopFree(r)

----------------------------------------------------------------------------
\* State machine

Init ==
    /\ trocr_service = TrOCRInit
    /\ \E ok \in BOOLEAN :
          tesseract_service = [ model_loaded |-> ok,
                                status |-> IF ok THEN "Ready" ELSE "Error" ]
    /\ fs = [ dirs |-> {}, files |-> [ t \in TrackedTypes |-> {} ], temp_script |-> FALSE ]
    /\ pc = [ r \in Requests |-> "idle" ]
    /\ req = [ r \in Requests |-> NoReq ]
    /\ last = NoLast
    /\ last_load = "never"

\* The handler of slot r returns its response.
Complete(r, record) ==
    /\ pc' = [ pc EXCEPT ![r] = "idle" ]
    /\ req' = [ req EXCEPT ![r] = NoReq ]
    /\ last' = record

\* The handler of slot r, having called download_model (d is what the call
\* did so far), either is inside subprocess.run or goes on with `finish`.
AfterDownloadModel(r, rq, d, finish) ==
    /\ trocr_service' = d.svc
    /\ fs' = d.fs
    /\ last_load' = IF d.load = "none" THEN last_load ELSE d.load
    /\ IF d.phase = "subprocess"
       THEN /\ pc' = [ pc EXCEPT ![r] = "subprocess" ]
            /\ req' = [ req EXCEPT ![r] = [ rq EXCEPT !.dm = d.log ] ]
            /\ last' = NoLast
       ELSE Complete(r, finish)

\* The record of a finished extract_text request.
ExtractRecord(rq, e, log, s) ==
    [ NoLast EXCEPT !.kind = "extract", !.ocr_type = rq.ocr_type,
                    !.model_type = rq.model_type,
                    !.status_code = e.out.status_code, !.content = e.out.content,
                    !.result = e.out.result, !.tess = e.tess, !.trocr = e.trocr,
                    !.dm = log,
                    !.loaded_as_requested =
                        (s.model_loaded /\ s.current_model_type = rq.model_type) ]

\* The record of a finished models/download or models/force-download request.
DownloadRecord(rq, d) ==
    [ NoLast EXCEPT !.kind = rq.kind, !.model_type = rq.model_type,
                    !.status_code = 200, !.content = d.result, !.dm = d.log,
                    !.was_loaded = rq.was_loaded,
                    !.loaded_as_requested =
                        (d.svc.model_loaded /\ d.svc.current_model_type = rq.model_type) ]

\* Whether download_model, called in this state, runs _load_model before it
\* returns or calls subprocess.run; whether it writes the temporary script.
LoadFaultsAt(s, f, model_type) ==
    IF /\ model_type \in available_models
       /\ ~(s.model_loaded /\ s.current_model_type = model_type)
       /\ _check_local_model(f, model_type)
    THEN LoadFaults ELSE { "none" }

WriteFaultsAt(s, f, model_type) ==
    IF /\ model_type \in available_models
       /\ ~(s.model_loaded /\ s.current_model_type = model_type)
       /\ ~_check_local_model(f, model_type)
    THEN WriteFaults ELSE { "none" }

\* extract_text, lines 40-46: validate the file, then await file.read().
\* The HTTPException(400) of line 43 is raised inside the try block and is
\* caught by `except Exception` (line 140).
ExtractTextBegin(r) ==
    /\ pc[r] = "idle"
    /\ Runnable(r)
    /\ \E valid \in BOOLEAN :
          LET rq == [ NoReq EXCEPT !.kind = "extract" ]
          IN  IF valid
              THEN /\ pc' = [ pc EXCEPT ![r] = "reading" ]
                   /\ req' = [ req EXCEPT ![r] = rq ]
                   /\ last' = NoLast
              ELSE Complete(r, [ ExtractRecord(rq,
                       [ out |-> extract_error("400: Invalid image file"),
                         tess |-> "none", trocr |-> "none" ], NoDM, trocr_service)
                         EXCEPT !.file_valid = FALSE ])
    /\ UNCHANGED << trocr_service, tesseract_service, fs, last_load >>

\* extract_text, lines 47-141: the file is read; select the engine named by
\* the form fields ocr_type and model_type and run it.
ExtractTextResume(r) ==
    /\ pc[r] = "reading"
    /\ Runnable(r)
    /\ \E ocr_type \in OcrTypes :
         \E model_type \in (IF ocr_type = "trocr" THEN RequestTypes ELSE { DefaultModelType }) :
          LET rq == [ req[r] EXCEPT !.ocr_type = ocr_type, !.model_type = model_type ]
              s == trocr_service
          IN  CASE ocr_type = "tesseract" ->
                     /\ \E tfault \in BOOLEAN :
                           Complete(r, ExtractRecord(rq,
                               extract_with_tesseract(tesseract_service, rq, tfault), NoDM, s))
                     /\ UNCHANGED << trocr_service, fs, last_load >>
                [] ocr_type = "trocr" ->
                     IF needs_load(s, model_type)
                     THEN \E wfault \in WriteFaultsAt(s, fs, model_type),
                             lfault \in LoadFaultsAt(s, fs, model_type) :
                            LET d == download_model_enter(s, fs, model_type, wfault, lfault)
                            IN  \E tfault \in (IF d.phase = "returned" /\ ~d.result.success
                                               THEN BOOLEAN ELSE { FALSE }),
                                   xfault \in (IF d.phase = "returned" /\ d.result.success
                                               THEN BOOLEAN ELSE { FALSE }) :
                                  AfterDownloadModel(r, rq, d,
                                      ExtractRecord(rq,
                                          extract_after_load(d.svc, tesseract_service, rq,
                                                             d.result, tfault, xfault),
                                          d.log, d.svc))
                     ELSE /\ \E xfault \in BOOLEAN :
                                Complete(r, ExtractRecord(rq,
                                    extract_with_trocr(s, rq, xfault), NoDM, s))
                          /\ UNCHANGED << trocr_service, fs, last_load >>
                [] OTHER ->
                     /\ Complete(r, ExtractRecord(rq,
                            [ out |-> extract_error("400: Invalid OCR type"),
                              tess |-> "none", trocr |-> "none" ], NoDM, s))
                     /\ UNCHANGED << trocr_service, fs, last_load >>
    /\ UNCHANGED tesseract_service

\* download_models (lines 230-240).
DownloadModels(r) ==
    /\ pc[r] = "idle"
    /\ Runnable(r)
    /\ \E model_type \in RequestTypes :
         \E wfault \in WriteFaultsAt(trocr_service, fs, model_type),
            lfault \in LoadFaultsAt(trocr_service, fs, model_type) :
          LET rq == [ NoReq EXCEPT !.kind = "download", !.model_type = model_type ]
              d == download_model_enter(trocr_service, fs, model_type, wfault, lfault)
          IN  AfterDownloadModel(r, rq, d, DownloadRecord(rq, d))
    /\ UNCHANGED tesseract_service

\* force_download_models (lines 242-256).
ForceDownloadModels(r) ==
    /\ pc[r] = "idle"
    /\ Runnable(r)
    /\ \E model_type \in RequestTypes :
          LET rq == [ NoReq EXCEPT !.kind = "force", !.model_type = model_type,
                                   !.was_loaded =
                                       /\ trocr_service.model_loaded
                                       /\ trocr_service.current_model_type = model_type ]
              s0 == force_reset(trocr_service, model_type)
          IN  \E wfault \in WriteFaultsAt(s0, fs, model_type),
                 lfault \in LoadFaultsAt(s0, fs, model_type) :
                LET d == download_model_enter(s0, fs, model_type, wfault, lfault)
                IN  AfterDownloadModel(r, rq, d, DownloadRecord(rq, d))
    /\ UNCHANGED tesseract_service

\* subprocess.run of download_model ends in slot r; download_model returns
\* and its caller goes on to its response.
SubprocessEnds(r) ==
    /\ pc[r] = "subprocess"
    /\ last = NoLast
    /\ LET rq == req[r]
       IN  \E outcome \in SubprocessOutcomes :
            \E progress \in ChildProgress(outcome),
               lfault \in (IF outcome = "exit0" THEN LoadFaults ELSE { "none" }),
               tfault \in (IF rq.kind = "extract" /\ outcome # "exit0"
                           THEN BOOLEAN ELSE { FALSE }),
               xfault \in (IF rq.kind = "extract" /\ outcome = "exit0"
                           THEN BOOLEAN ELSE { FALSE }) :
               LET d == download_model_finish(trocr_service, fs, rq.model_type,
                                              outcome, progress, lfault, rq.dm)
               IN  AfterDownloadModel(r, rq, d,
                       IF rq.kind = "extract"
                       THEN ExtractRecord(rq,
                                extract_after_load(d.svc, tesseract_service, rq,
                                                   d.result, tfault, xfault),
                                d.log, d.svc)
                       ELSE DownloadRecord(rq, d))
    /\ UNCHANGED tesseract_service

\* clear_model_cache (lines 258-285).  It may directly follow another
\* cache-clear, whose record is then still in `last`.
ClearModelCache(r) ==
    /\ pc[r] = "idle"
    /\ LoopFree(r)
    /\ last = NoLast \/ last.kind = "clear"
    /\ LET c == clear_model_cache(trocr_service, fs)
       IN  /\ trocr_service' = c.svc
           /\ fs' = c.fs
           /\ Complete(r, [ NoLast EXCEPT !.kind = "clear", !.status_code = c.status_code,
                                          !.content = c.content,
                                          !.dir_existed = (DefaultModelType \in fs.dirs) ])
    /\ UNCHANGED << tesseract_service, last_load >>

\* get_models_status whose get_status loads the default model when no model
\* is loaded.
GetModelsStatus_loads(r) ==
    /\ pc[r] = "idle"
    /\ Runnable(r)
    /\ trocr_service' = IF trocr_service.model_loaded THEN trocr_service
                        ELSE _load_model(trocr_service, fs, DefaultModelType, "none")
    /\ Complete(r, [ NoLast EXCEPT !.kind = "status", !.status_code = 200,
                                   !.content = get_status(trocr_service', tesseract_service, fs) ])
    /\ UNCHANGED << tesseract_service, fs, last_load >>

\* get_models_status (lines 196-211).
GetModelsStatus(r) ==
    /\ pc[r] = "idle"
    /\ Runnable(r)
    /\ Complete(r, [ NoLast EXCEPT !.kind = "status", !.status_code = 200,
                                   !.content = get_status(trocr_service, tesseract_service, fs) ])
    /\ UNCHANGED << trocr_service, tesseract_service, fs, last_load >>

\* get_available_models (lines 213-228).
GetAvailableModels(r) ==
    /\ pc[r] = "idle"
    /\ Runnable(r)
    /\ Complete(r, [ NoLast EXCEPT !.kind = "available", !.status_code = 200,
                                   !.content = [ available_models |-> available_models,
                                                 installed_models |-> get_installed_models(fs) ] ])
    /\ UNCHANGED << trocr_service, tesseract_service, fs, last_load >>

\* The response of the request that has just finished is sent; the handlers
\* wait for nothing in it.
SendResponse ==
    /\ last # NoLast
    /\ last' = NoLast
    /\ UNCHANGED << trocr_service, tesseract_service, fs, pc, req, last_load >>

Next ==
    \/ SendResponse
    \/ \E r \in Requests :
           \/ ExtractTextBegin(r)
           \/ ExtractTextResume(r)
           \/ DownloadModels(r)
           \/ ForceDownloadModels(r)
           \/ SubprocessEnds(r)
           \/ ClearModelCache(r)
           \/ GetModelsStatus(r)
           \/ GetAvailableModels(r)

Spec == Init /\ [][Next]_vars

----------------------------------------------------------------------------
\* The presence test applied to every content of the model directories

\* Every content the model directories can have: each directory is absent,
\* or exists and holds any subset of the required files.
FileSystems ==
    { [ dirs |-> D, files |-> F, temp_script |-> FALSE ] :
        D \in SUBSET TrackedTypes, F \in [ TrackedTypes -> SUBSET RequiredFiles ] }

InitLocalModel ==
    /\ trocr_service = TrOCRInit
    /\ tesseract_service = [ model_loaded |-> TRUE, status |-> "Ready" ]
    /\ fs \in { f \in FileSystems : \A t \in TrackedTypes : t \notin f.dirs => f.files[t] = {} }
    /\ pc = [ r \in Requests |-> "idle" ]
    /\ req = [ r \in Requests |-> NoReq ]
    /\ last = NoLast
    /\ last_load = "never"

\* _check_local_model and get_installed_models applied to the directories, and
\* the branch download_model takes on them (line 306) with no model loaded.
CheckLocalModel(model_type) ==
    /\ last = NoLast
    /\ LET d == download_model_enter(trocr_service, fs, model_type, "none", "none")
       IN  last' = [ NoLast EXCEPT
                       !.kind = "check_local",
                       !.model_type = model_type,
                       !.content = [ exists |-> _check_local_model(fs, model_type),
                                     installed_models |-> get_installed_models(fs) ],
                       !.dm = d.log ]
    /\ UNCHANGED << trocr_service, tesseract_service, fs, pc, req, last_load >>

NextLocalModel ==
    \/ SendResponse
    \/ \E model_type \in TrackedTypes : CheckLocalModel(model_type)

SpecLocalModel == InitLocalModel /\ [][NextLocalModel]_vars

----------------------------------------------------------------------------
\* preprocess_image (the same code in both services) and the /preprocess route

\* Heights and widths of the images, and the grey levels of their pixels.
Sides == { 1, 2 }

PixelValues == { 40, 200 }

\* An image is its shape and its pixels.  A pixel of a 3-channel image is
\* kept as one grey level v, standing for the colour (v, v, v).
ImagesOf(channels) ==
    UNION { { [ height |-> h, width |-> w, channels |-> channels, px |-> f ] :
                f \in [ (1..h) \X (1..w) -> PixelValues ] } : h \in Sides, w \in Sides }

NoImage == [ height |-> 0, width |-> 0, channels |-> 0, px |-> << >> ]

\* Values of the form fields of /preprocess and /extract-text.
BlurKernels == { -3, -2, 0, 1, 4, 5 }

SupportedMethods == { "Adaptive Gaussian", "Adaptive Mean", "Otsu", "Simple" }

ThresholdMethods == SupportedMethods \cup { "Unknown" }

BlockSizes == { 1, 10, 11 }

\* Floor of the mean of the pixels of an image.
RECURSIVE SumPx(_, _)
SumPx(px, D) ==
    IF D = {} THEN 0
    ELSE LET d == CHOOSE x \in D : TRUE IN px[d] + SumPx(px, D \ { d })

MeanPx(img) == SumPx(img.px, DOMAIN img.px) \div Cardinality(DOMAIN img.px)

\* cv2.cvtColor(image, COLOR_BGR2GRAY): one channel, same shape.
cvtColorGray(img) == [ img EXCEPT !.channels = 1 ]

\* cv2.GaussianBlur(img, (k, k), 0): raises unless k is positive and odd; a
\* 1x1 kernel leaves the image as it is, a larger kernel averages the
\* neighbourhood, which covers the whole of these small images.
GaussianBlur(img, k) ==
    IF k <= 0 \/ k % 2 # 1
    THEN [ raised |-> TRUE, image |-> NoImage ]
    ELSE [ raised |-> FALSE,
           image |-> IF k = 1 THEN img
                     ELSE [ img EXCEPT !.px = [ d \in DOMAIN img.px |-> MeanPx(img) ] ] ]

\* cv2.threshold(img, thresh, 255, THRESH_BINARY): 255 above thresh, else 0.
threshold_binary(img, thresh) ==
    [ img EXCEPT !.px = [ d \in DOMAIN img.px |-> IF img.px[d] > thresh THEN 255 ELSE 0 ] ]

\* cv2.adaptiveThreshold(img, 255, method, THRESH_BINARY, block_size, c):
\* raises unless block_size is odd and above 1; else 255 where the pixel is
\* above the mean of its neighbourhood minus c, else 0.
adaptiveThreshold(img, block_size, c) ==
    IF block_size % 2 # 1 \/ block_size <= 1
    THEN [ raised |-> TRUE, image |-> NoImage ]
    ELSE [ raised |-> FALSE,
           image |-> [ img EXCEPT !.px = [ d \in DOMAIN img.px |->
                                           IF img.px[d] > MeanPx(img) - c THEN 255 ELSE 0 ] ] ]

\* preprocess_image (tesseract_service.py 32-67, trocr_service.py 139-174).
\* `simple_binary` is whether the last branch thresholds the image.  The
\* result records what was handed to the blur and threshold steps.
preprocess_image_as(simple_binary, image, blur_kernel, threshold_method, block_size, c_value, simple_thresh_value) ==
    LET gray_image == cvtColorGray(image)
        kernel == IF blur_kernel % 2 = 0 THEN blur_kernel + 1 ELSE blur_kernel
        blurred == GaussianBlur(gray_image, kernel)
        blurred_image == blurred.image
        out(raised, img, method, block) ==
            [ raised |-> raised, image |-> img, blur_kernel |-> kernel,
              threshold_method |-> method, block_size |-> block ]
    IN  IF blurred.raised THEN out(TRUE, NoImage, None, None)
        ELSE CASE threshold_method \in { "Adaptive Gaussian", "Adaptive Mean" } ->
                    LET a == adaptiveThreshold(blurred_image, block_size, c_value)
                    IN  out(a.raised, a.image, threshold_method, block_size)
               [] threshold_method = "Otsu" ->
                    out(FALSE, threshold_binary(blurred_image, MeanPx(blurred_image)),
                        "Otsu", None)
               [] OTHER ->
                    out(FALSE,
                        IF simple_binary
                        THEN threshold_binary(blurred_image, simple_thresh_value)
                        ELSE blurred_image,
                        "Simple", None)

\* preprocess_image whose last branch returns the blurred image.
preprocess_image_returns_blurred(image, blur_kernel, threshold_method, block_size, c_value, simple_thresh_value) ==
    preprocess_image_as(FALSE, image, blur_kernel, threshold_method, block_size, c_value,
                        simple_thresh_value)

preprocess_image(image, blur_kernel, threshold_method, block_size, c_value, simple_thresh_value) ==
    preprocess_image_as(TRUE, image, blur_kernel, threshold_method, block_size, c_value,
                        simple_thresh_value)

\* The `except Exception` handler of the /preprocess route (lines 193-194).
preprocess_error(cause) ==
    [ status_code |-> 500, detail |-> << "Image preprocessing failed", cause >> ]

InitPreprocess ==
    /\ trocr_service = TrOCRInit
    /\ \E ok \in BOOLEAN :
          tesseract_service = [ model_loaded |-> ok,
                                status |-> IF ok THEN "Ready" ELSE "Error" ]
    /\ fs = [ dirs |-> {}, files |-> [ t \in TrackedTypes |-> {} ], temp_script |-> FALSE ]
    /\ pc = [ r \in Requests |-> "idle" ]
    /\ req = [ r \in Requests |-> NoReq ]
    /\ last = NoLast
    /\ last_load = "never"

\* The /preprocess route (ocr_routes.py 143-194) for a file that passes
\* validate_image_file.
PreprocessImage(image, blur_kernel, threshold_method, block_size) ==
    /\ last = NoLast
    /\ LET c_value == 2
           simple_thresh_value == 127
           p == preprocess_image(image, blur_kernel, threshold_method, block_size, c_value,
                                 simple_thresh_value)
           out == IF p.raised THEN preprocess_error("cv2.error")
                  ELSE [ status_code |-> 200, detail |-> None ]
       IN  last' = [ NoLast EXCEPT
                       !.kind = "preprocess",
                       !.status_code = out.status_code,
                       !.result = [ image |-> image, processed_image |-> p.image,
                                    blur_kernel |-> p.blur_kernel,
                                    threshold_method |-> p.threshold_method,
                                    block_size |-> p.block_size ],
                       !.content =
                           [ success |-> ~p.raised,
                             detail |-> out.detail,
                             settings |-> [ blur_kernel |-> blur_kernel,
                                            threshold_method |-> threshold_method,
                                            block_size |-> block_size,
                                            c_value |-> c_value,
                                            simple_thresh_value |-> simple_thresh_value ] ] ]
    /\ UNCHANGED << trocr_service, tesseract_service, fs, pc, req, last_load >>

\* The /preprocess route for a file that fails validate_image_file: the
\* HTTPException(400) of line 160 is caught at line 193.
PreprocessInvalidFile ==
    /\ last = NoLast
    /\ last' = [ NoLast EXCEPT !.kind = "preprocess", !.file_valid = FALSE,
                               !.status_code = 500,
                               !.content = [ success |-> FALSE,
                                             detail |-> preprocess_error("400: Invalid image file").detail ] ]
    /\ UNCHANGED << trocr_service, tesseract_service, fs, pc, req, last_load >>

NextPreprocess ==
    \/ SendResponse
    \/ PreprocessInvalidFile
    \/ \E image \in ImagesOf(3), blur_kernel \in BlurKernels,
          threshold_method \in ThresholdMethods, block_size \in BlockSizes :
         PreprocessImage(image, blur_kernel, threshold_method, block_size)

SpecPreprocess == InitPreprocess /\ [][NextPreprocess]_vars

----------------------------------------------------------------------------
\* TesseractService.extract_text in detail: presets and confidence

\* Longest list of per-token confidences pytesseract.image_to_data returns.
MaxTokens == 2

\* Values of the form fields processing_speed and accuracy_level.
Speeds == { "fast", "balanced", "high", "maximum" }

AccuracyLevels == { "low", "medium", "high", "maximum" }

\* Per-token confidences as image_to_data reports them: -1 for a box that is
\* no word, else 0..100.
ConfValues == { -1, 0, 60, 90 }

ConfData == UNION { [ 1..n -> ConfValues ] : n \in 0..MaxTokens }

\* A Python dict with string keys: the empty dict, d.get(k, default), d[k] = v.
EmptyDict == [ k \in {} |-> None ]

DictGet(d, k, default) == IF k \in DOMAIN d THEN d[k] ELSE default

DictSet(d, k, v) == [ x \in DOMAIN d \cup { k } |-> IF x = k THEN v ELSE d[x] ]

Max(a, b) == IF a >= b THEN a ELSE b

\* _get_preprocessing_settings; `exempt` are the speeds for which accuracy
\* "high" changes nothing (line 112).
_get_preprocessing_settings_as(exempt, processing_speed, accuracy_level) ==
    LET settings ==
            CASE processing_speed = "fast" ->
                   [ blur_kernel |-> 3, threshold_method |-> "Simple",
                     block_size |-> 7, c_value |-> 1 ]
              [] processing_speed = "balanced" ->
                   [ blur_kernel |-> 5, threshold_method |-> "Adaptive Gaussian",
                     block_size |-> 11, c_value |-> 2 ]
              [] processing_speed = "high" ->
                   [ blur_kernel |-> 7, threshold_method |-> "Adaptive Gaussian",
                     block_size |-> 15, c_value |-> 3 ]
              [] processing_speed = "maximum" ->
                   [ blur_kernel |-> 9, threshold_method |-> "Otsu",
                     block_size |-> 19, c_value |-> 4 ]
              [] OTHER -> EmptyDict
    IN  CASE accuracy_level = "medium" ->
               IF processing_speed # "fast"
               THEN DictSet(settings, "threshold_method", "Adaptive Gaussian")
               ELSE settings
          [] accuracy_level = "high" ->
               IF processing_speed \notin exempt
               THEN DictSet(DictSet(settings, "threshold_method", "Adaptive Gaussian"),
                            "block_size", Max(DictGet(settings, "block_size", 11), 13))
               ELSE settings
          [] accuracy_level = "maximum" ->
               DictSet(DictSet(DictSet(settings, "threshold_method", "Otsu"),
                               "block_size", Max(DictGet(settings, "block_size", 11), 15)),
                       "c_value", Max(DictGet(settings, "c_value", 2), 3))
          [] OTHER -> settings

\* _get_preprocessing_settings that applies accuracy "high" at every speed.
_get_preprocessing_settings_high_everywhere(processing_speed, accuracy_level) ==
    _get_preprocessing_settings_as({}, processing_speed, accuracy_level)

\* _get_preprocessing_settings whose accuracy "maximum" assigns block_size 15
\* instead of max(block_size, 15).
_get_preprocessing_settings_assigns_block(processing_speed, accuracy_level) ==
    LET settings == _get_preprocessing_settings_as({ "fast", "balanced" }, processing_speed,
                                                   accuracy_level)
    IN  IF accuracy_level = "maximum" THEN DictSet(settings, "block_size", 15) ELSE settings

\* _get_preprocessing_settings whose accuracy "high" raises block_size to
\* max(block_size, 16) instead of max(block_size, 13).
_get_preprocessing_settings_even_floor(processing_speed, accuracy_level) ==
    LET settings == _get_preprocessing_settings_as({ "fast", "balanced" }, processing_speed,
                                                   accuracy_level)
        baseline == _get_preprocessing_settings_as({ "fast", "balanced" }, processing_speed,
                                                   "low")
    IN  IF accuracy_level = "high" /\ processing_speed \notin { "fast", "balanced" }
        THEN DictSet(settings, "block_size", Max(DictGet(baseline, "block_size", 11), 16))
        ELSE settings

\* _get_preprocessing_settings (lines 69-122).
_get_preprocessing_settings(processing_speed, accuracy_level) ==
    _get_preprocessing_settings_as({ "fast", "balanced" }, processing_speed, accuracy_level)

\* Defaults of the parameters of TesseractService.extract_text (lines 160-162).
ExtractDefaults ==
    [ blur_kernel |-> 5, threshold_method |-> "Adaptive Gaussian",
      block_size |-> 11, c_value |-> 2 ]

\* Values of the form fields blur_kernel, threshold_method, block_size and
\* c_value of /extract-text: the defaults, and an adaptive method with an even
\* blur kernel and an even block size.
GivenSettings ==
    { ExtractDefaults,
      [ blur_kernel |-> 4, threshold_method |-> "Adaptive Mean",
        block_size |-> 10, c_value |-> 2 ] }

\* The image of the request: one pixel.
SampleImage ==
    [ height |-> 1, width |-> 1, channels |-> 3, px |-> [ d \in { << 1, 1 >> } |-> 200 ] ]

\* preprocess_image called by an extract_text method with these arguments, or
\* not called when use_preprocessing is false.
extract_preprocess(use_preprocessing, args) ==
    IF use_preprocessing
    THEN preprocess_image(SampleImage, args.blur_kernel, args.threshold_method,
                          args.block_size, args.c_value, 127)
    ELSE [ raised |-> FALSE, image |-> SampleImage, blur_kernel |-> None,
           threshold_method |-> None, block_size |-> None ]

\* extract_text, lines 176-181: the arguments handed to preprocess_image.
adjusted_settings(preprocessing_settings, given) ==
    [ k \in DOMAIN given |-> DictGet(preprocessing_settings, k, given[k]) ]

\* /extract-text, lines 127-137 of ocr_routes.py: the blur_kernel,
\* threshold_method, block_size and c_value of settings_used are the form
\* fields of the request.
settings_used(given) ==
    [ k \in { "blur_kernel", "threshold_method", "block_size", "c_value" } |-> given[k] ]

RECURSIVE SumSeq(_)
SumSeq(q) == IF q = << >> THEN 0 ELSE Head(q) + SumSeq(Tail(q))

\* A number num/den; the floats of the confidence computation are kept exact.
Ratio(num, den) == [ num |-> num, den |-> den ]

\* extract_text, lines 196-201 and 207: the confidences above 0 are averaged,
\* an empty list gives 0, an exception in the block gives 0.95; the result is
\* divided by 100.
tesseract_confidence(conf, data_fault) ==
    LET confidences == SelectSeq(conf, LAMBDA c : c > 0)
        avg_confidence ==
            IF data_fault THEN Ratio(95, 100)
            ELSE IF confidences # << >>
            THEN Ratio(SumSeq(confidences), Len(confidences))
            ELSE Ratio(0, 1)
    IN  Ratio(avg_confidence.num, avg_confidence.den * 100)

InitTesseract ==
    /\ trocr_service = TrOCRInit
    /\ \E ok \in BOOLEAN :
          tesseract_service = [ model_loaded |-> ok,
                                status |-> IF ok THEN "Ready" ELSE "Error" ]
    /\ fs = [ dirs |-> {}, files |-> [ t \in TrackedTypes |-> {} ], temp_script |-> FALSE ]
    /\ pc = [ r \in Requests |-> "idle" ]
    /\ req = [ r \in Requests |-> NoReq ]
    /\ last = NoLast
    /\ last_load = "never"

\* TesseractService.extract_text (lines 159-213) with its presets and its
\* confidence; conf is data['conf'] of image_to_data, data_fault an exception
\* inside the confidence block, fault one outside it.
TesseractExtractText(processing_speed, accuracy_level, use_preprocessing, given, conf, data_fault, fault) ==
    /\ last = NoLast
    /\ LET preprocessing_settings ==
               _get_preprocessing_settings(processing_speed, accuracy_level)
           applied == adjusted_settings(preprocessing_settings, given)
           pre == extract_preprocess(use_preprocessing, applied)
           t == tesseract_extract_text(tesseract_service, fault \/ pre.raised)
           result == IF t.outcome = "ok"
                     THEN [ text |-> t.result.text,
                            confidence |-> tesseract_confidence(conf, data_fault) ]
                     ELSE [ text |-> t.result.text ]
       IN  last' = [ NoLast EXCEPT
                       !.kind = "tesseract_extract",
                       !.tess = t.outcome,
                       !.result = result,
                       !.content =
                           [ processing_speed |-> processing_speed,
                             accuracy_level |-> accuracy_level,
                             use_preprocessing |-> use_preprocessing,
                             given |-> given,
                             settings_used |-> settings_used(given),
                             conf |-> conf,
                             data_fault |-> data_fault,
                             preprocessing_settings |-> preprocessing_settings,
                             applied |-> IF use_preprocessing THEN applied ELSE EmptyDict,
                             preprocess_raised |-> pre.raised,
                             block_size_used |-> pre.block_size ] ]
    /\ UNCHANGED << trocr_service, tesseract_service, fs, pc, req, last_load >>

\* An exception inside the confidence block is drawn with the empty list
\* only: the list is not used when the block raises.
NextTesseract ==
    \/ SendResponse
    \/ \E processing_speed \in Speeds, accuracy_level \in AccuracyLevels,
          use_preprocessing \in BOOLEAN, given \in GivenSettings, conf \in ConfData,
          fault \in BOOLEAN :
         \E data_fault \in ( IF conf = << >> THEN BOOLEAN ELSE { FALSE } ) :
           TesseractExtractText(processing_speed, accuracy_level, use_preprocessing, given,
                                conf, data_fault, fault)

SpecTesseract == InitTesseract /\ [][NextTesseract]_vars

----------------------------------------------------------------------------
\* TrOCRService.extract_text in detail: generation config and preprocessing

\* dict.update(e).
DictUpdate(d, e) ==
    [ k \in DOMAIN d \cup DOMAIN e |-> IF k \in DOMAIN e THEN e[k] ELSE d[k] ]

\* _get_generation_config (trocr_service.py 176-233).  The floats of
\* temperature and top_p are kept as their decimal strings.
_get_generation_config(processing_speed, accuracy_level) ==
    LET config0 == [ max_length |-> 128, early_stopping |-> TRUE ]
        config ==
            CASE processing_speed = "fast" ->
                   DictUpdate(config0, [ num_beams |-> 1, do_sample |-> FALSE,
                                         temperature |-> "1.0" ])
              [] processing_speed = "balanced" ->
                   DictUpdate(config0, [ num_beams |-> 3, do_sample |-> FALSE,
                                         temperature |-> "1.0" ])
              [] processing_speed = "high" ->
                   DictUpdate(config0, [ num_beams |-> 5, do_sample |-> FALSE,
                                         temperature |-> "1.0" ])
              [] processing_speed = "maximum" ->
                   DictUpdate(config0, [ num_beams |-> 8, do_sample |-> TRUE,
                                         temperature |-> "0.8", top_p |-> "0.9",
                                         top_k |-> 50 ])
              [] OTHER -> config0
        beams(floor) == Max(DictGet(config, "num_beams", 1), floor)
    IN  CASE accuracy_level = "medium" ->
               IF processing_speed \notin { "fast" }
               THEN DictSet(config, "num_beams", beams(3))
               ELSE config
          [] accuracy_level = "high" ->
               IF processing_speed \notin { "fast", "balanced" }
               THEN DictSet(DictSet(config, "num_beams", beams(5)), "max_length", 150)
               ELSE config
          [] accuracy_level = "maximum" ->
               DictUpdate(config, [ num_beams |-> beams(8), max_length |-> 200,
                                    do_sample |-> TRUE, temperature |-> "0.7",
                                    top_p |-> "0.9", top_k |-> 50 ])
          [] OTHER -> config

\* The service with no model, or with the model of a tracked type loaded.
InitTrOCR ==
    /\ fs = [ dirs |-> {}, files |-> [ t \in TrackedTypes |-> {} ], temp_script |-> FALSE ]
    /\ trocr_service \in { TrOCRInit } \cup
                           { _load_model(TrOCRInit, fs, t, "none") : t \in TrackedTypes }
    /\ tesseract_service = [ model_loaded |-> TRUE, status |-> "Ready" ]
    /\ pc = [ r \in Requests |-> "idle" ]
    /\ req = [ r \in Requests |-> NoReq ]
    /\ last = NoLast
    /\ last_load = IF trocr_service.model_loaded THEN "ok" ELSE "never"

\* TrOCRService.extract_text (lines 235-284): preprocess_image with the
\* caller's values, then generation with the config of the speed and
\* accuracy level.
TrOCRExtractText(processing_speed, accuracy_level, use_preprocessing, given, fault) ==
    /\ last = NoLast
    /\ LET pre == extract_preprocess(use_preprocessing, given)
           x == trocr_extract_text(trocr_service, fault \/ pre.raised)
           generation_config == _get_generation_config(processing_speed, accuracy_level)
           result == IF x.outcome = "ok"
                     THEN [ text |-> x.result.text, confidence |-> Ratio(95, 100) ]
                     ELSE [ text |-> x.result.text ]
       IN  last' = [ NoLast EXCEPT
                       !.kind = "trocr_extract",
                       !.trocr = x.outcome,
                       !.result = result,
                       !.content =
                           [ processing_speed |-> processing_speed,
                             accuracy_level |-> accuracy_level,
                             use_preprocessing |-> use_preprocessing,
                             given |-> given,
                             generation_config |-> generation_config,
                             applied |-> IF use_preprocessing THEN given ELSE EmptyDict,
                             preprocess_raised |-> pre.raised,
                             block_size_used |-> pre.block_size ] ]
    /\ UNCHANGED << trocr_service, tesseract_service, fs, pc, req, last_load >>

NextTrOCR ==
    \/ SendResponse
    \/ \E processing_speed \in Speeds, accuracy_level \in AccuracyLevels,
          use_preprocessing \in BOOLEAN, given \in GivenSettings, fault \in BOOLEAN :
         TrOCRExtractText(processing_speed, accuracy_level, use_preprocessing, given, fault)

SpecTrOCR == InitTrOCR /\ [][NextTrOCR]_vars

----------------------------------------------------------------------------
\* Properties

\* The last request was extract_text with ocr_type=trocr, and it called
\* download_model because the requested model was not the loaded one.
TrocrExtractWithLoad ==
    /\ last.kind = "extract"
    /\ last.ocr_type = "trocr"
    /\ last.dm.called

\* C1: a trocr extraction for a catalog model type that could not be made
\* the loaded model (download failed, or _load_model failed) is answered 200
\* with the Tesseract text and a result marked as fallback, whenever the
\* Tesseract engine itself works.
C1_LoadFailureFallsBack ==
    ( /\ TrocrExtractWithLoad
      /\ last.model_type \in available_models
      /\ ~last.loaded_as_requested
      /\ tesseract_service.model_loaded
      /\ last.tess # "raised" )
    => /\ last.status_code = 200
       /\ last.content.text = << "tesseract", None >>
       /\ "fallback_used" \in DOMAIN last.result
       /\ last.result.fallback_used

\* C2: when a load failure was recovered by running Tesseract, the response
\* sent to the caller has fallback_used = true and a non-empty fallback_reason
\* that contains the message download_model returned.
C2_FallbackReported ==
    ( /\ TrocrExtractWithLoad
      /\ ~last.dm.success
      /\ last.tess = "ok"
      /\ last.status_code = 200 )
    => /\ "fallback_used" \in DOMAIN last.content
       /\ last.content.fallback_used
       /\ "fallback_reason" \in DOMAIN last.content
       /\ \E i \in DOMAIN last.content.fallback_reason :
              last.content.fallback_reason[i] = last.dm.message

\* C3: a download_model call for a model type whose required files all exist
\* writes no temporary script and runs no subprocess, and when it loads the
\* model it loads it from the local directory.
C3_PresentCacheNeverDownloads ==
    /\ ( last.dm.called /\ last.dm.entry_present )
       => /\ ~last.dm.script_written
          /\ ~last.dm.subprocess_run
          /\ last.dm.load_source \in { "none", "local" }
    /\ \A r \in Requests : pc[r] = "subprocess" => ~req[r].dm.entry_present

\* C3 witness: download_model was called for a present cache and loaded it.
C3_Witness ==
    /\ last.dm.called
    /\ last.dm.entry_present
    /\ last.dm.load_source = "local"

C5_ClearIdempotent ==
    [][ \A r \in Requests :
          ClearModelCache(r) =>
            /\ ( DefaultModelType \notin fs.dirs =>
                   /\ last'.status_code = 200
                   /\ last'.content.success )
            /\ ( last.kind = "clear" =>
                   /\ trocr_service' = trocr_service
                   /\ fs' = fs ) ]_vars

\* C5 witness: a cache-clear found the directory absent after an earlier
\* cache-clear had removed it.
C5_Witness ==
    /\ last.kind = "clear"
    /\ ~last.dir_existed
    /\ last.status_code = 200
    /\ trocr_service.status = << "Local cache cleared", None >>

\* C6: when the download subprocess times out or exits non-zero,
\* download_model returns success = false with a non-empty message, and the
\* download endpoints answer with that dictionary.
C6_DownloadFailureIsStructured ==
    last.dm.outcome \in { "timeout", "nonzero" }
    => /\ last.dm.returned
       /\ ~last.dm.success
       /\ Len(last.dm.message) > 0
       /\ last.dm.message[1] # ""
       /\ ( last.kind \in { "download", "force" } =>
              /\ last.status_code = 200
              /\ ~last.content.success
              /\ last.content.message = last.dm.message )

\* C6 witness: a models/download request whose subprocess timed out.
C6_Witness ==
    /\ last.kind = "download"
    /\ last.dm.outcome = "timeout"
    /\ ~last.dm.success

\* C7: the temporary script a download_model call created does not exist
\* once that call has returned.
C7_TempScriptRemoved ==
    ( last.dm.returned /\ last.dm.script_written ) => ~fs.temp_script

\* C8: while a download is in progress in one handler, no other handler is in
\* a download and no other handler takes a step: the next step is the end of
\* that download.
C8_MutationsSerialized ==
    [][ \A r \in Requests :
          pc[r] = "subprocess" =>
            /\ \A q \in Requests \ { r } :
                 /\ pc[q] # "subprocess"
                 /\ pc'[q] = pc[q]
                 /\ req'[q] = req[q]
            /\ pc'[r] = "idle" ]_vars

\* C8 witness: a download is in progress while another request is suspended.
C8_Witness ==
    \E r, q \in Requests : pc[r] = "subprocess" /\ pc[q] = "reading"

\* C9: a trocr extraction whose model_type is no catalog key is answered with
\* an error and no engine performs an extraction for it.
C9_UnknownTypeRejected ==
    ( /\ last.kind = "extract"
      /\ last.ocr_type = "trocr"
      /\ last.model_type \notin available_models
      /\ last.dm.called )
    => /\ last.status_code # 200
       /\ last.tess \notin { "ok", "raised" }
       /\ last.trocr \notin { "ok", "raised" }

\* C10: model_loaded is false until a _load_model call succeeds and true only
\* if the most recent _load_model call succeeded; when it is true,
\* current_model_type is a catalog key and the processor and the model held
\* were loaded for that type.
C10_LoadedStateConsistent ==
    /\ last_load = "never" => ~trocr_service.model_loaded
    /\ trocr_service.model_loaded =>
         /\ last_load = "ok"
         /\ trocr_service.current_model_type \in available_models
         /\ trocr_service.processor = trocr_service.current_model_type
         /\ trocr_service.model = trocr_service.current_model_type

\* C10 witness: a model is loaded after another type's handles were held.
C10_Witness ==
    /\ trocr_service.model_loaded
    /\ trocr_service.current_model_type # DefaultModelType
    /\ last.dm.load_called
    /\ last.model_type = trocr_service.current_model_type

\* C11: a force-download request for a catalog model type never returns
\* through the "already loaded" return of download_model; while it downloads
\* and after it, the model counts as loaded only if this request called
\* _load_model and the call succeeded; and when the local files of the type
\* are present it calls _load_model, also when the type was the loaded model.
C11_ForceReloadRepeatsLoad ==
    /\ \A r \in Requests :
          ( pc[r] = "subprocess" /\ req[r].kind = "force" ) => ~trocr_service.model_loaded
    /\ ( last.kind = "force" /\ last.model_type \in available_models )
       => /\ last.dm.called
          /\ last.dm.message[1] # "Model already loaded"
          /\ last.dm.entry_present => last.dm.load_called
          /\ last.dm.load_called \/ last.dm.script_written \/ ~last.content.success
          /\ trocr_service.model_loaded => ( last.dm.load_called /\ last_load = "ok" )

\* C11 witness: the forced type was the loaded model, and was loaded again.
C11_Witness ==
    /\ last.kind = "force"
    /\ last.was_loaded
    /\ last.dm.load_called
    /\ trocr_service.model_loaded
    /\ trocr_service.current_model_type = last.model_type

\* C12: a models/status or models/available request changes neither service,
\* nor the cache, nor the record of loads, and puts no handler into a download.
C12_QueriesChangeNothing ==
    [][ \A r \in Requests :
          ( GetModelsStatus(r) \/ GetAvailableModels(r) ) =>
            /\ trocr_service' = trocr_service
            /\ tesseract_service' = tesseract_service
            /\ fs' = fs
            /\ last_load' = last_load
            /\ pc' = pc
            /\ last'.kind \in { "status", "available" }
            /\ ~last'.dm.called ]_vars

\* C12 witness: models/status was answered while a model was installed
\* locally and no model was loaded.
C12_Witness ==
    /\ last.kind = "status"
    /\ ~trocr_service.model_loaded
    /\ last.content.trocr.installed_models # {}
    /\ ~last.content.trocr.loaded

\* C13: when download_model calls _load_model, the model files are read from
\* the local directory: _load_model does not fetch from the remote repository.
C13_LoadReadsLocalOnly ==
    last.dm.load_called => last.dm.load_source = "local"

\* C14: once a download has ended by timeout, the directory of the model
\* type holds no partially written model: it is absent or empty, or holds
\* all required files.
C14_TimeoutLeavesNoPartialState ==
    ( last.dm.outcome = "timeout" /\ last.model_type \in TrackedTypes )
    => \/ last.model_type \notin fs.dirs
       \/ fs.files[last.model_type] = {}
       \/ RequiredFiles \subseteq fs.files[last.model_type]

\* C15: when the engine that runs the extraction raises (Tesseract, chosen or
\* as fallback, or TrOCR with the model loaded), the request is answered 500
\* with the cause in the detail, carries no text, and the other engine was
\* not run in its place.
C15_ExtractionFailureIsFatal ==
    ( last.kind = "extract" /\ ( last.tess = "raised" \/ last.trocr = "raised" ) )
    => /\ last.status_code = 500
       /\ last.content = [ detail |-> << "OCR processing failed", "raised" >> ]
       /\ last.result.text = << None, None >>
       /\ last.trocr = "raised" => last.tess = "none"
       /\ last.tess = "raised" => last.trocr = "none"

\* C15 witness: the load step of the request succeeded and TrOCR then raised.
C15_Witness ==
    /\ last.kind = "extract"
    /\ last.dm.load_called
    /\ last.loaded_as_requested
    /\ last.trocr = "raised"
    /\ tesseract_service.model_loaded

\* C16: with the Tesseract engine unavailable, a tesseract extraction, and a
\* trocr extraction whose download_model call returned failure, are answered
\* 500 and carry no text.
C16_TesseractUnavailableIsTerminal ==
    ( /\ last.kind = "extract"
      /\ ~tesseract_service.model_loaded
      /\ \/ last.ocr_type = "tesseract"
         \/ ( TrocrExtractWithLoad /\ ~last.dm.success ) )
    => /\ last.status_code = 500
       /\ last.tess = "unavailable"
       /\ "text" \notin DOMAIN last.content
       /\ last.result.text = << None, None >>

\* C16 witness: the fallback after a failed download found Tesseract unavailable.
C16_Witness ==
    /\ TrocrExtractWithLoad
    /\ last.dm.subprocess_run
    /\ ~last.dm.success
    /\ last.tess = "unavailable"

\* C17: an extraction with ocr_type=tesseract, or with ocr_type=trocr for the
\* model type that is the loaded model, calls neither download_model nor
\* _load_model, runs no subprocess, and leaves the TrOCR service and the
\* cache as they were.
C17_NoLoadWhenNotNeeded ==
    [][ \A r \in Requests :
          ( /\ ExtractTextResume(r)
            /\ \/ last'.ocr_type = "tesseract"
               \/ /\ last'.ocr_type = "trocr"
                  /\ trocr_service.model_loaded
                  /\ trocr_service.current_model_type = last'.model_type )
          => /\ trocr_service' = trocr_service
             /\ fs' = fs
             /\ last_load' = last_load
             /\ ~last'.dm.called
             /\ pc'[r] = "idle" ]_vars

\* C17 witness: a trocr extraction was served by the model already loaded.
C17_Witness ==
    /\ last.kind = "extract"
    /\ last.ocr_type = "trocr"
    /\ ~last.dm.called
    /\ last.trocr = "ok"
    /\ last.content.text = << "trocr", last.model_type >>

\* C18: whatever subset of the five required files a model directory holds,
\* _check_local_model answers true, get_installed_models lists the type, and
\* download_model loads instead of downloading, exactly when all five files
\* exist.
C18_PresentIffAllFiles ==
    last.kind = "check_local" =>
      LET five == { "tokenizer.json", "tokenizer_config.json", "preprocessor_config.json",
                    "config.json", "pytorch_model.bin" }
          present(t) == t \in fs.dirs /\ five \subseteq fs.files[t]
      IN  /\ last.content.exists = present(last.model_type)
          /\ \A t \in TrackedTypes : ( t \in last.content.installed_models ) = present(t)
          /\ last.content.installed_models \subseteq TrackedTypes
          /\ last.dm.load_called = present(last.model_type)
          /\ last.dm.subprocess_run = ~present(last.model_type)

\* C18 witness: a directory holding four of the five files, pytorch_model.bin
\* missing, was tested and counted as absent.
C18_Witness ==
    /\ last.kind = "check_local"
    /\ Cardinality(fs.files[last.model_type]) = 4
    /\ "pytorch_model.bin" \notin fs.files[last.model_type]
    /\ ~last.content.exists
    /\ last.dm.subprocess_run

\* C19: for every speed and accuracy level of the 4x4 grid the preprocessing
\* settings have the four fields blur_kernel, threshold_method, block_size
\* and c_value, with the values of the policy table.
C19_PreprocessingSettingsTable ==
    last.kind = "tesseract_extract" =>
      LET row(b, m, k, c) == [ blur_kernel |-> b, threshold_method |-> m,
                               block_size |-> k, c_value |-> c ]
          AG == "Adaptive Gaussian"
          table ==
            [ fast     |-> [ low |-> row(3, "Simple", 7, 1), medium |-> row(3, "Simple", 7, 1),
                             high |-> row(3, "Simple", 7, 1), maximum |-> row(3, "Otsu", 15, 3) ],
              balanced |-> [ low |-> row(5, AG, 11, 2), medium |-> row(5, AG, 11, 2),
                             high |-> row(5, AG, 11, 2), maximum |-> row(5, "Otsu", 15, 3) ],
              high     |-> [ low |-> row(7, AG, 15, 3), medium |-> row(7, AG, 15, 3),
                             high |-> row(7, AG, 15, 3), maximum |-> row(7, "Otsu", 15, 3) ],
              maximum  |-> [ low |-> row(9, "Otsu", 19, 4), medium |-> row(9, AG, 19, 4),
                             high |-> row(9, AG, 19, 4), maximum |-> row(9, "Otsu", 19, 4) ] ]
          got == last.content.preprocessing_settings
      IN  /\ DOMAIN got = { "blur_kernel", "threshold_method", "block_size", "c_value" }
          /\ got = table[last.content.processing_speed][last.content.accuracy_level]

\* C19 witness: the settings for speed fast and accuracy high were resolved.
C19_Witness ==
    /\ last.kind = "tesseract_extract"
    /\ last.content.processing_speed = "fast"
    /\ last.content.accuracy_level = "high"
    /\ last.content.preprocessing_settings.threshold_method = "Simple"
    /\ last.content.preprocessing_settings.block_size = 7

\* C20: in a Tesseract extraction whose image_to_data call returned, the
\* confidence reported is the average of the per-token confidences above 0,
\* divided by 100, and it is 0.95 when no per-token confidence is above 0.
C20_DefaultConfidence ==
    ( /\ last.kind = "tesseract_extract"
      /\ last.tess = "ok"
      /\ ~last.content.data_fault )
    => LET positive == SelectSeq(last.content.conf, LAMBDA c : c > 0)
           got == last.result.confidence
       IN  IF positive = << >>
           THEN got.num * 100 = 95 * got.den
           ELSE got.num * Len(positive) * 100 = SumSeq(positive) * got.den

\* C26: a force-download request for a catalog model type whose required
\* files all exist locally runs the download subprocess.
C26_ForceDownloadsPresentCache ==
    ( /\ last.kind = "force"
      /\ last.model_type \in available_models
      /\ last.dm.entry_present )
    => last.dm.subprocess_run

\* C27: a force-download request whose model_type is no catalog key leaves
\* the TrOCR service (model_loaded, current_model_type, status, handles) as
\* it was, and is answered with a failure.
C27_ForceUnknownTypeChangesNothing ==
    [][ \A r \in Requests :
          ( /\ ForceDownloadModels(r)
            /\ last'.model_type \notin available_models
            /\ last'.kind = "force" )
          => /\ ~last'.content.success
             /\ trocr_service' = trocr_service ]_vars

\* C28: after a cache-clear request answered with success, the directory of
\* the model type recorded in current_model_type does not exist.
C28_ClearRemovesCurrentModelDir ==
    ( /\ last.kind = "clear"
      /\ last.status_code = 200
      /\ last.content.success
      /\ trocr_service.current_model_type \in TrackedTypes )
    => trocr_service.current_model_type \notin fs.dirs

\* C29: an extraction request whose file fails validation, or whose ocr_type
\* is neither tesseract nor trocr, is answered with status 400 and the
\* detail of the check that failed, and runs no engine.
C29_InputErrorsAre400 ==
    ( /\ last.kind = "extract"
      /\ ~last.file_valid \/ last.ocr_type = "other" )
    => /\ last.status_code = 400
       /\ last.tess = "none"
       /\ last.trocr = "none"
       /\ ~last.dm.called

\* C22: for every speed and accuracy level the resolved block_size and c_value
\* are at least those of the speed's baseline row, and blur_kernel is that of
\* the baseline row.
C22_NeverBelowSpeedBaseline ==
    last.kind = "tesseract_extract" =>
      LET baseline == [ fast     |-> [ blur_kernel |-> 3, block_size |-> 7, c_value |-> 1 ],
                        balanced |-> [ blur_kernel |-> 5, block_size |-> 11, c_value |-> 2 ],
                        high     |-> [ blur_kernel |-> 7, block_size |-> 15, c_value |-> 3 ],
                        maximum  |-> [ blur_kernel |-> 9, block_size |-> 19, c_value |-> 4 ] ]
          base == baseline[last.content.processing_speed]
          got == last.content.preprocessing_settings
      IN  /\ got.block_size >= base.block_size
          /\ got.c_value >= base.c_value
          /\ got.blur_kernel = base.blur_kernel

\* C22 witness: speed maximum with accuracy maximum kept the block size 19 of
\* the speed, above the 15 of the accuracy level.
C22_Witness ==
    /\ last.kind = "tesseract_extract"
    /\ last.content.processing_speed = "maximum"
    /\ last.content.accuracy_level = "maximum"
    /\ last.content.preprocessing_settings.block_size = 19
    /\ last.content.preprocessing_settings.threshold_method = "Otsu"

\* C21: the kernel size preprocess_image hands to the blur step is odd and at
\* least 1; it is the input plus one for an even input and the input itself
\* for an odd input.
C21_BlurKernelOddPositive ==
    ( last.kind = "preprocess" /\ last.file_valid )
    => LET given == last.content.settings.blur_kernel
           used == last.result.blur_kernel
       IN  /\ used % 2 = 1
           /\ used >= 1
           /\ used = IF given % 2 = 0 THEN given + 1 ELSE given

\* C25: for each of the four threshold methods, an image preprocess_image
\* returns has one channel, the height and width of the input, and only the
\* pixel values 0 and 255.
C25_OutputIsBinarySameShape ==
    ( /\ last.kind = "preprocess"
      /\ last.file_valid
      /\ last.status_code = 200
      /\ last.content.settings.threshold_method \in SupportedMethods )
    => LET in == last.result.image
           out == last.result.processed_image
       IN  /\ out.channels = 1
           /\ out.height = in.height
           /\ out.width = in.width
           /\ DOMAIN out.px = DOMAIN in.px
           /\ \A d \in DOMAIN out.px : out.px[d] \in { 0, 255 }

\* C25 witness: a 2x2 image with both grey levels, blurred with a 5x5 kernel
\* and thresholded with the Simple method, came out uniform.
C25_Witness ==
    /\ last.kind = "preprocess"
    /\ last.status_code = 200
    /\ last.content.settings.threshold_method = "Simple"
    /\ last.result.blur_kernel = 5
    /\ last.result.image.height = 2
    /\ last.result.image.width = 2
    /\ \E d, e \in DOMAIN last.result.image.px :
          last.result.image.px[d] # last.result.image.px[e]
    /\ \A d \in DOMAIN last.result.processed_image.px :
          last.result.processed_image.px[d] = 0

\* C30: a preprocessing request whose threshold_method is none of the four
\* supported methods is answered with an error and no threshold is applied.
C30_UnknownMethodRejected ==
    ( /\ last.kind = "preprocess"
      /\ last.file_valid
      /\ last.content.settings.threshold_method \notin
             { "Adaptive Gaussian", "Adaptive Mean", "Otsu", "Simple" } )
    => /\ last.status_code # 200
       /\ ~last.content.success
       /\ last.result.threshold_method = None

\* C23: the max_length of the TrOCR generation config is 128 for accuracy
\* low and medium, 150 for accuracy high and 200 for accuracy maximum, at
\* every processing speed.
C23_MaxLengthByAccuracy ==
    ( last.kind = "trocr_extract" /\ last.trocr = "ok" ) =>
      LET expected == [ low |-> 128, medium |-> 128, high |-> 150, maximum |-> 200 ]
      IN  last.content.generation_config.max_length = expected[last.content.accuracy_level]

\* C24: a Tesseract extraction with preprocessing, for which the caller gave
\* an adaptive threshold method and an even block_size, ends in an error, and
\* no other block size is used in place of the caller's.
C24_EvenBlockSizeIsError ==
    ( /\ last.kind = "tesseract_extract"
      /\ tesseract_service.model_loaded
      /\ last.content.use_preprocessing
      /\ last.content.given.threshold_method \in { "Adaptive Gaussian", "Adaptive Mean" }
      /\ last.content.given.block_size % 2 = 0 )
    => /\ last.tess = "raised"
       /\ last.content.applied.block_size = last.content.given.block_size

\* C31: when download_model returns success = true for model type X, the
\* service has model_loaded = true and current_model_type = X, and a TrOCR
\* extraction that follows does not fail for a model not loaded.
C31_SuccessMeansLoaded ==
    ( last.dm.returned /\ last.dm.success )
    => /\ last.loaded_as_requested
       /\ last.trocr # "not_loaded"

\* C32: a download_model call that returns success = false leaves
\* model_loaded, current_model_type and the processor and model handles as
\* they were when it was called (for a force-download request: as the route
\* handed them to download_model), both when it enters the subprocess and
\* when it returns.
C32_FailureKeepsLoadedModel ==
    [][ LET entering == \E r \in Requests : pc[r] # "subprocess" /\ pc'[r] = "subprocess"
            failed == last = NoLast /\ last'.dm.returned /\ ~last'.dm.success
            forced == /\ \A r \in Requests : pc[r] # "subprocess"
                      /\ \/ last'.kind = "force"
                         \/ \E r \in Requests :
                              pc'[r] = "subprocess" /\ req'[r].kind = "force"
            before == IF forced THEN force_reset(trocr_service, None) ELSE trocr_service
        IN  ( entering \/ failed )
            => /\ trocr_service'.model_loaded = before.model_loaded
               /\ trocr_service'.current_model_type = before.current_model_type
               /\ trocr_service'.processor = before.processor
               /\ trocr_service'.model = before.model ]_vars

\* C32 witness: a download of another type timed out while a model was
\* loaded, and that model is still loaded.
C32_Witness ==
    /\ last.kind = "download"
    /\ last.dm.outcome = "timeout"
    /\ trocr_service.model_loaded
    /\ trocr_service.current_model_type # last.model_type
    /\ trocr_service.model = trocr_service.current_model_type

\* C33: a text produced by the TrOCR engine for a request naming model type
\* X was generated by the model of X, with X the loaded model when the
\* request ended, whatever other requests were in flight.
C33_ExtractionUsesRequestedModel ==
    ( last.kind = "extract" /\ last.trocr = "ok" )
    => /\ last.content.text = << "trocr", last.model_type >>
       /\ last.loaded_as_requested
       /\ trocr_service.model = last.model_type
       /\ last.tess = "none"

\* C33 witness: a TrOCR extraction loaded its model and produced text while
\* another request was suspended, after another type had been loaded.
C33_Witness ==
    /\ last.kind = "extract"
    /\ last.trocr = "ok"
    /\ last.dm.load_called
    /\ last.model_type # DefaultModelType
    /\ DefaultModelType \in fs.dirs
    /\ \E q \in Requests : pc[q] = "reading"

\* C34: after the download subprocess of a download_model call for model
\* type X exited with status 0, all required files of X exist.
C34_ExitZeroMeansPresent ==
    last.dm.outcome = "exit0" => AllRequiredFilesExist(fs, last.dm.model_type)

\* C37: a temporary script is written, and a subprocess run, only for a
\* model_type that is a key of the catalog of six.
C37_ScriptOnlyForCatalogKeys ==
    /\ Cardinality(available_models) = 6
    /\ last.dm.script_written => last.dm.model_type \in available_models
    /\ last.dm.subprocess_run => last.dm.model_type \in available_models
    /\ \A r \in Requests :
          ( pc[r] = "subprocess" \/ req[r].dm.script_written )
          => req[r].dm.model_type \in available_models

\* C37 witness: download_model was called with a string that is no catalog
\* key and returned before writing a script.
C37_Witness ==
    /\ last.kind = "download"
    /\ last.dm.called
    /\ last.dm.model_type \notin available_models
    /\ ~last.dm.script_written
    /\ ~fs.temp_script

\* C35: for every pair of processing_speed and accuracy_level of the 4x4
\* grid the resolved preprocessing settings have an odd blur_kernel >= 1, an
\* odd block_size >= 3 and a supported threshold method, they are the
\* arguments handed to preprocess_image, and preprocess_image does not raise.
C35_GridPresetsAccepted ==
    ( last.kind = "tesseract_extract"
      /\ last.content.processing_speed \in { "fast", "balanced", "high", "maximum" }
      /\ last.content.accuracy_level \in { "low", "medium", "high", "maximum" } )
    => LET settings == last.content.preprocessing_settings
       IN  /\ DOMAIN settings = { "blur_kernel", "threshold_method", "block_size", "c_value" }
           /\ settings.blur_kernel >= 1
           /\ settings.blur_kernel % 2 = 1
           /\ settings.block_size >= 3
           /\ settings.block_size % 2 = 1
           /\ settings.threshold_method \in SupportedMethods
           /\ ~last.content.preprocess_raised
           /\ last.content.use_preprocessing
              => /\ last.content.applied = settings
                 /\ settings.threshold_method \in { "Adaptive Gaussian", "Adaptive Mean" }
                    => last.content.block_size_used = settings.block_size

\* C35 witness: a Tesseract extraction at speed "high" and accuracy "high"
\* preprocessed its image with an adaptive threshold of block size 15, over
\* a request that gave an even block size, and produced text.
C35_Witness ==
    /\ last.kind = "tesseract_extract"
    /\ last.content.use_preprocessing
    /\ last.content.processing_speed = "high"
    /\ last.content.accuracy_level = "high"
    /\ last.content.given.block_size = 10
    /\ last.content.block_size_used = 15
    /\ last.tess = "ok"

\* C36: for a successful Tesseract extraction with use_preprocessing = true
\* the blur_kernel, threshold_method, block_size and c_value reported in
\* settings_used are the values handed to preprocess_image.
C36_SettingsUsedAreApplied ==
    ( last.kind = "tesseract_extract" /\ last.tess = "ok" /\ last.content.use_preprocessing )
    => \A k \in DOMAIN last.content.settings_used :
          last.content.settings_used[k] = last.content.applied[k]

====
